---- MODULE Spec2Model ----
(***************************************************************************)
(* Model of quarkchain/cluster/jsonrpc.py: the hex codecs (quantity, data, *)
(* object), the decode_arg / encode_res pipeline and the three JSON-RPC    *)
(* handlers echo, getTransactionCount and sendTransaction.                 *)
(*                                                                         *)
(* Strings are sequences of one-character strings, byte buffers are        *)
(* sequences of integers in 0..255, JSON values are tagged records and     *)
(* every Python call yields a Result record: a value or a raised error.    *)
(***************************************************************************)
EXTENDS Integers, Sequences, FiniteSets, TLC

VARIABLES
    pc,             \* codec harness: "start", "encoded", "decoded"
    input,          \* codec harness: the drawn input
    wire,           \* codec harness: the encoder's output string
    output,         \* codec harness: the decoder's Result
    decodeHexError, \* the exception class the installed decode_hex raises on bad hex
    req,            \* server: request id -> the request received (or NoRequest)
    st,             \* server: request id -> "idle", "awaiting", "ready", "done"
    frame,          \* server: request id -> locals of the coroutine suspended at its await
    answer,         \* server: request id -> what the master answered
    outcome,        \* server: request id -> the Result the request ended with
    entered,        \* server: request id -> TRUE once the handler body started
    masterLog,      \* server: sequence of the calls made on self.master
    ready,          \* server: coroutines whose await resolved, in wake-up (FIFO) order
    resolvedOrder,  \* server: request ids in the order their master call resolved
    completedOrder  \* server: request ids in the order the requests ended

codecVars == <<pc, input, wire, output>>
serverVars == <<req, st, frame, answer, outcome, entered, masterLog, ready,
                resolvedOrder, completedOrder>>
vars == <<pc, input, wire, output, decodeHexError, req, st, frame, answer, outcome,
          entered, masterLog, ready, resolvedOrder, completedOrder>>

(***************************************************************************)
(* Bounds of the model.                                                    *)
(***************************************************************************)
MaxQuantity == 300
MaxRawLen == 4
MaxHead == 2
MaxDigits == 3
MaxPadLength == 3
NumReqs == 2
MaxCount == 256

(***************************************************************************)
(* JSON values and results.                                                *)
(***************************************************************************)
JStr(s) == [t |-> "str", s |-> s, n |-> 0]
JInt(n) == [t |-> "int", s |-> <<>>, n |-> n]
JNull == [t |-> "null", s |-> <<>>, n |-> 0]

\* a returned value, a returned None, a raised exception
Ok(v) == [ok |-> TRUE, none |-> FALSE, val |-> v, err |-> "", msg |-> ""]
OkNone == [ok |-> TRUE, none |-> TRUE, val |-> 0, err |-> "", msg |-> ""]
Raise(e, m) == [ok |-> FALSE, none |-> FALSE, val |-> 0, err |-> e, msg |-> m]

(***************************************************************************)
(* Sequence helpers standing for Python's str methods.                     *)
(***************************************************************************)
Repeat(c, k) == [i \in 1..k |-> c]

Drop(s, k) == SubSeq(s, k + 1, Len(s))

startswith0x(s) == Len(s) >= 2 /\ s[1] = "0" /\ s[2] = "x"

RECURSIVE lstrip(_, _)
lstrip(s, c) == IF s # <<>> /\ Head(s) = c THEN lstrip(Tail(s), c) ELSE s

RECURSIVE rstripSpace(_)
rstripSpace(s) ==
    IF s # <<>> /\ s[Len(s)] = " " THEN rstripSpace(SubSeq(s, 1, Len(s) - 1)) ELSE s

\* faulty variant of rjust: pads on the right
ljustMutant(s, width, c) == IF Len(s) >= width THEN s ELSE s \o Repeat(c, width - Len(s))

\* str.rjust
rjust(s, width, c) == IF Len(s) >= width THEN s ELSE Repeat(c, width - Len(s)) \o s

(***************************************************************************)
(* Hexadecimal digits.                                                     *)
(***************************************************************************)
HexDigits == <<"0", "1", "2", "3", "4", "5", "6", "7",
               "8", "9", "a", "b", "c", "d", "e", "f">>
UpperHexDigits == <<"0", "1", "2", "3", "4", "5", "6", "7",
                    "8", "9", "A", "B", "C", "D", "E", "F">>

IsHexDigit(c) == \E i \in 1..16 : HexDigits[i] = c \/ UpperHexDigits[i] = c

HexVal(c) == (CHOOSE i \in 1..16 : HexDigits[i] = c \/ UpperHexDigits[i] = c) - 1

AllHex(s) == \A i \in 1..Len(s) : IsHexDigit(s[i])

RECURSIVE HexToInt(_)
HexToInt(s) == IF s = <<>> THEN 0
               ELSE 16 * HexToInt(SubSeq(s, 1, Len(s) - 1)) + HexVal(s[Len(s)])

(***************************************************************************)
(* ethereum.utils: encode_hex, decode_hex, int_to_big_endian.              *)
(***************************************************************************)
RECURSIVE encode_hex(_)
encode_hex(b) ==
    IF b = <<>> THEN <<>>
    ELSE <<HexDigits[(Head(b) \div 16) + 1], HexDigits[(Head(b) % 16) + 1]>>
         \o encode_hex(Tail(b))

RECURSIVE HexPairs(_)
HexPairs(s) == IF s = <<>> THEN <<>>
               ELSE <<16 * HexVal(s[1]) + HexVal(s[2])>> \o HexPairs(Drop(s, 2))

\* decode_hex(s) on a str: two hex digits per byte, an error otherwise.
decode_hex(s) ==
    IF AllHex(s) /\ Len(s) % 2 = 0 THEN Ok(HexPairs(s))
    ELSE Raise(decodeHexError, "decode_hex")

RECURSIVE int_to_big_endian(_)
int_to_big_endian(i) ==
    IF i = 0 THEN <<>> ELSE int_to_big_endian(i \div 256) \o <<i % 256>>

(***************************************************************************)
(* Python's int(text, 16): surrounding whitespace, an optional sign and an *)
(* optional 0x/0X prefix are accepted around a non-empty run of hex digits.*)
(***************************************************************************)
IsNegative(text) == text # <<>> /\ Head(text) = "-"

StripSign(text) == IF text # <<>> /\ Head(text) \in {"+", "-"} THEN Tail(text) ELSE text

StripBasePrefix(text) ==
    IF Len(text) >= 2 /\ text[1] = "0" /\ text[2] \in {"x", "X"} THEN Drop(text, 2)
    ELSE text

ParseDigits(digits, negative) ==
    IF digits # <<>> /\ AllHex(digits)
    THEN Ok(IF negative THEN 0 - HexToInt(digits) ELSE HexToInt(digits))
    ELSE Raise("ValueError", "invalid literal for int() with base 16")

PyInt16Stripped(stripped) ==
    ParseDigits(StripBasePrefix(StripSign(stripped)), IsNegative(stripped))

PyInt16(text) == PyInt16Stripped(rstripSpace(lstrip(text, " ")))

(***************************************************************************)
(* Quantity codec.                                                         *)
(***************************************************************************)
is_json_string(data) == data.t = "str"

InvalidQuantity == Raise("InvalidParams", "Invalid quantity encoding")

\* try: return int(data, 16) / except ValueError: success = False
IntOrInvalid(parsed) == IF parsed.ok THEN Ok(parsed.val) ELSE InvalidQuantity

quantity_decoder(data) ==
    IF ~is_json_string(data) THEN InvalidQuantity
    ELSE IF ~startswith0x(data.s) THEN InvalidQuantity
    ELSE IF Len(data.s) > 3 /\ data.s[3] = "0" THEN InvalidQuantity
    ELSE IntOrInvalid(PyInt16(Drop(data.s, 2)))

\* faulty variant of StripOrZero: the `or "0"` is missing
StripOrZeroMutant(hex) == lstrip(hex, "0")

\* encode_hex(data).lstrip("0") or "0"
StripOrZero(hex) == IF lstrip(hex, "0") = <<>> THEN <<"0">> ELSE lstrip(hex, "0")

quantity_encoder(i) == <<"0", "x">> \o StripOrZero(encode_hex(int_to_big_endian(i)))

(***************************************************************************)
(* Data codec.                                                             *)
(***************************************************************************)
\* faulty variant of PadLegacy: pads to 62 digits
PadLegacyMutant(digits) == Repeat("0", 62 - Len(digits)) \o digits

\* the netstats workaround: left-pad an odd digit string to 64 digits
PadLegacy(digits) == Repeat("0", 64 - Len(digits)) \o digits

\* if not data.startswith("0x"): data = "0x" + data
WithPrefix(text) == IF startswith0x(text) THEN text ELSE <<"0", "x">> \o text

\* try: return decode_hex(data[2:]) / except TypeError: raise InvalidParams
BytesOrInvalid(decoded) ==
    IF ~decoded.ok /\ decoded.err = "TypeError"
    THEN Raise("InvalidParams", "Invalid data hex encoding")
    ELSE decoded

DecodePrefixed(prefixed) ==
    IF Len(prefixed) % 2 # 0 /\ ~(Len(prefixed) < 64 + 2)
    THEN Raise("AssertionError", "")
    ELSE BytesOrInvalid(decode_hex(IF Len(prefixed) % 2 # 0
                                   THEN PadLegacy(Drop(prefixed, 2))
                                   ELSE Drop(prefixed, 2)))

data_decoder(data) ==
    IF data.t # "str" THEN Raise("AttributeError", "startswith")
    ELSE DecodePrefixed(WithPrefix(data.s))

NoLength == -1

data_encoder(data, length) ==
    IF length = NoLength THEN <<"0", "x">> \o encode_hex(data)
    ELSE <<"0", "x">> \o rjust(encode_hex(data), length * 2, "0")

(***************************************************************************)
(* Domain objects of quarkchain.core: fixed-size serialized buffers.       *)
(***************************************************************************)
AddressSize == 2
BranchSize == 1

SizeOf(cls) == IF cls = "Address" THEN AddressSize ELSE BranchSize

deserialize(cls, raw) ==
    IF Len(raw) = SizeOf(cls) THEN Ok([cls |-> cls, raw |-> raw])
    ELSE Raise("ValueError", "deserialize")

serialize(obj) == obj.raw

(***************************************************************************)
(* Object codec and the domain decoders.                                   *)
(***************************************************************************)
\* try: return cls.deserialize(raw) / except Exception as e: raise InvalidParams(e)
ObjectOrInvalid(obj) == IF obj.ok THEN obj ELSE Raise("InvalidParams", obj.msg)

DeserializeRaw(raw, cls) ==
    IF ~raw.ok THEN raw ELSE ObjectOrInvalid(deserialize(cls, raw.val))

obj_decoder(data, cls) == DeserializeRaw(data_decoder(data), cls)

obj_encoder(obj, cls) ==
    IF obj.cls # cls THEN Raise("AssertionError", "")
    ELSE Ok(<<"0", "x">> \o encode_hex(serialize(obj)))

address_decoder(data) == obj_decoder(data, "Address")

address_encoder(address) == obj_encoder(address, "Address")

\* a call whose value is dropped: the caller returns None unless the call raised
DropValue(res) == IF res.ok THEN OkNone ELSE res

\* the decoded object is computed and dropped: the function returns None
branch_decoder(data) == DropValue(obj_decoder(data, "Branch"))

\* the encoded string is computed and dropped: the function returns None
branch_encoder(branch) == DropValue(obj_encoder(branch, "Branch"))

BlockTags == {<<"l", "a", "t", "e", "s", "t">>,
              <<"e", "a", "r", "l", "i", "e", "s", "t">>,
              <<"p", "e", "n", "d", "i", "n", "g">>}
Pending == JStr(<<"p", "e", "n", "d", "i", "n", "g">>)

block_id_decoder(data) ==
    IF data.t = "null" THEN OkNone
    ELSE IF data.t = "str" /\ data.s \in BlockTags THEN Ok(data)
    ELSE quantity_decoder(data)

\* a Python value as it appears in the JSON result
ToJson(res) == IF res.none THEN JNull ELSE JStr(res.val)

(***************************************************************************)
(* The decorated handlers.  A call runs synchronously up to its await on   *)
(* self.master (Suspend) or to its end (Finish); the second flag of Finish *)
(* tells whether the handler body was entered.                             *)
(***************************************************************************)
NoCall == [fn |-> "none", arg |-> 0]
NoFrame == [method |-> "none"]
NoResult == Raise("", "")

Finish(res, bodyEntered) ==
    [suspend |-> FALSE, entered |-> bodyEntered, res |-> res, call |-> NoCall,
     frame |-> NoFrame]
Suspend(call, fr) ==
    [suspend |-> TRUE, entered |-> TRUE, res |-> NoResult, call |-> call, frame |-> fr]

\* inspect.getcallargs: the passed arguments, completed by the defaults
getcallargs(args, defaults) ==
    [k \in DOMAIN args \cup DOMAIN defaults |->
        IF k \in DOMAIN args THEN args[k] ELSE defaults[k]]

\* @decode_arg("data", data_decoder) @encode_res(data_encoder) echo
EchoDecoded(data) ==
    IF ~data.ok THEN Finish(data, FALSE)
    ELSE Finish(Ok(JStr(data_encoder(data.val, NoLength))), TRUE)

echo(args) == EchoDecoded(data_decoder(getcallargs(args, <<>>)["data"]))

\* @decode_arg("address", ...) @decode_arg("blockId", ...) getTransactionCount,
\* up to the await of self.master.getTransactionCount(address)
GetTransactionCountDecoded(address, blockId) ==
    IF ~address.ok THEN Finish(address, FALSE)
    ELSE IF ~blockId.ok THEN Finish(blockId, FALSE)
    ELSE Suspend([fn |-> "getTransactionCount", arg |-> address.val],
                 [method |-> "getTransactionCount", address |-> address.val])

GetTransactionCountCall(call_args) ==
    GetTransactionCountDecoded(address_decoder(call_args["address"]),
                               block_id_decoder(call_args["blockId"]))

getTransactionCount(args) ==
    GetTransactionCountCall(getcallargs(args, [blockId |-> Pending]))

\* getTransactionCount from the await on: the master's (branch, count) or its failure
GetTransactionCountReturn(branch, count) ==
    IF ~branch.ok THEN branch
    ELSE Ok([branch |-> ToJson(branch), count |-> JStr(quantity_encoder(count))])

getTransactionCountResume(fr, reply) ==
    IF ~reply.ok THEN reply
    ELSE GetTransactionCountReturn(branch_encoder(reply.val.branch), reply.val.count)

default_startgas == 500 * 1000
\* 60 * denoms.shannon = 60 * 10^9 wei, kept symbolic (beyond 32-bit integers)
default_gasprice == [times |-> 60, denom |-> "shannon"]

\* the 32-byte hash of a transaction
TxHash(tx) == Repeat((tx.nonce + 16 * tx.v) % 256, 32)

\* getDataDefault of the three decoder kinds
getDataDefaultQuantity(data, key, default) ==
    IF key \in DOMAIN data.f THEN quantity_decoder(data.f[key]) ELSE default
getDataDefaultAddress(data, key, default) ==
    IF key \in DOMAIN data.f THEN address_decoder(data.f[key]) ELSE default
getDataDefaultData(data, key, default) ==
    IF key \in DOMAIN data.f THEN data_decoder(data.f[key]) ELSE default
getDataDefaultBranch(data, key, default) ==
    IF key \in DOMAIN data.f THEN branch_decoder(data.f[key]) ELSE default

\* the fields of sendTransaction in the order the handler decodes them
gasKey(data) == IF "gas" \in DOMAIN data.f THEN "gas" ELSE "startgas"

gaspriceKey(data) == IF "gasPrice" \in DOMAIN data.f THEN "gasPrice" ELSE "gasprice"

DecodeFields(data) ==
        << getDataDefaultAddress(data, "to", OkNone),
           getDataDefaultQuantity(data, gasKey(data), Ok(default_startgas)),
           getDataDefaultQuantity(data, gaspriceKey(data), Ok(default_gasprice)),
           getDataDefaultQuantity(data, "value", Ok(0)),
           getDataDefaultData(data, "data", Ok(<<>>)),
           getDataDefaultQuantity(data, "v", Ok(0)),
           getDataDefaultQuantity(data, "r", Ok(0)),
           getDataDefaultQuantity(data, "s", Ok(0)),
           getDataDefaultQuantity(data, "nonce", OkNone),
           getDataDefaultBranch(data, "branch", OkNone),
           getDataDefaultQuantity(data, "withdraw", Ok(0)),
           getDataDefaultAddress(data, "withdrawTo", OkNone) >>

FirstFailure(fields) ==
    fields[CHOOSE i \in 1..Len(fields) :
              ~fields[i].ok /\ \A j \in 1..(i - 1) : fields[j].ok]

\* the transaction built from the validated fields
EvmTransaction(fields) ==
    [nonce |-> fields[9].val, gasprice |-> fields[3].val, startgas |-> fields[2].val,
     to |-> fields[1].val.raw, value |-> fields[4].val, data |-> fields[5].val,
     v |-> fields[6].val, r |-> fields[7].val, s |-> fields[8].val,
     branchValue |-> fields[10].val.raw,
     withdraw |-> fields[11].val, withdrawSign |-> 1,
     withdrawTo |-> IF fields[12].none THEN <<>> ELSE serialize(fields[12].val)]

SubmitTransaction(tx, branch) ==
    Suspend([fn |-> "addTx", arg |-> [tx |-> tx, branch |-> branch]],
            [method |-> "sendTransaction", tx |-> tx])

\* fields = <<to, startgas, gasprice, value, data_, v, r, s, nonce, branch,
\*            withdraw, withdrawTo>>
ValidateAndBuild(fields) ==
    IF \E i \in 1..Len(fields) : ~fields[i].ok
    THEN Finish(FirstFailure(fields), TRUE)
    ELSE IF fields[9].none
    THEN Finish(Raise("InvalidParams", "Missing nonce"), TRUE)
    ELSE IF ~(fields[6].val # 0 /\ fields[7].val # 0 /\ fields[8].val # 0)
    THEN Finish(Raise("InvalidParams", "Mising v, r, s"), TRUE)
    ELSE IF fields[10].none
    THEN Finish(Raise("InvalidParams", "Missing branch"), TRUE)
    ELSE IF fields[11].val > 0 /\ fields[12].none
    THEN Finish(Raise("InvalidParams", "Missing withdrawTo"), TRUE)
    ELSE IF fields[1].none
    THEN Finish(Raise("AttributeError", "recipient"), TRUE)
    ELSE SubmitTransaction(EvmTransaction(fields), fields[10].val)

\* sendTransaction up to the await of self.master.addTx(tx, branch)
sendTransaction(args) ==
    IF ~args["data"].isDict
    THEN Finish(Raise("InvalidParams", "Transaction must be an object"), TRUE)
    ELSE ValidateAndBuild(DecodeFields(args["data"]))

\* sendTransaction from the await on: addTx returned or raised
sendTransactionResume(fr, reply) ==
    IF ~reply.ok THEN reply
    ELSE Ok(JStr(data_encoder(TxHash(fr.tx), NoLength)))

\* methods.dispatch: the call of the method bound to the request's name
HandlerStart(rq) ==
    IF rq.method = "echo" THEN echo(rq.args)
    ELSE IF rq.method = "getTransactionCount" THEN getTransactionCount(rq.args)
    ELSE sendTransaction(rq.args)

HandlerResume(fr, reply) ==
    IF fr.method = "getTransactionCount" THEN getTransactionCountResume(fr, reply)
    ELSE sendTransactionResume(fr, reply)

(***************************************************************************)
(* Codec harness: an input is drawn, the encoder and the decoder are       *)
(* applied to it.                                                          *)
(***************************************************************************)
SeqsUpTo(S, k) == UNION {[1..m -> S] : m \in 0..k}

QuantityAlphabet == {"0", "x", "1", "f", "-", " ", "g"}
ByteAlphabet == {0, 1, 171, 255}
DataAlphabet == {"0", "1", "a", "F", "g", "x"}
FillBytes == {0, 31, 33}
FillDigits == {0, 60, 62, 64}
Lengths == {NoLength, 34} \cup (0..MaxPadLength)
DecodeHexErrors == {"TypeError", "ValueError"}

EncodeInput(fn, x, b, length) ==
    [fn |-> fn, kind |-> "encode", x |-> x, b |-> b, length |-> length, raw |-> JNull]
DecodeInput(fn, raw) ==
    [fn |-> fn, kind |-> "decode", x |-> 0, b |-> <<>>, length |-> NoLength, raw |-> raw]

QuantityInputs ==
    {EncodeInput("quantity", x, <<>>, NoLength) : x \in 0..MaxQuantity}
    \cup {DecodeInput("quantity", JStr(s)) : s \in SeqsUpTo(QuantityAlphabet, MaxRawLen)}
    \cup {DecodeInput("quantity", JInt(123)), DecodeInput("quantity", JNull)}

Buffers == {head \o Repeat(7, k) : head \in SeqsUpTo(ByteAlphabet, MaxHead), k \in FillBytes}

HexTexts == {pre \o head \o Repeat("0", k) :
                pre \in {<<>>, <<"0", "x">>},
                head \in SeqsUpTo(DataAlphabet, MaxDigits),
                k \in FillDigits}

DataInputs ==
    {EncodeInput("data", 0, b, length) : b \in Buffers, length \in Lengths}
    \cup {DecodeInput("data", JStr(s)) : s \in HexTexts}
    \cup {DecodeInput("data", JInt(123))}

NoRequest == [method |-> "none"]
ReqIds == 1..NumReqs

ServerInit ==
    /\ req = [r \in ReqIds |-> NoRequest]
    /\ st = [r \in ReqIds |-> "idle"]
    /\ frame = [r \in ReqIds |-> NoFrame]
    /\ answer = [r \in ReqIds |-> NoResult]
    /\ outcome = [r \in ReqIds |-> NoResult]
    /\ entered = [r \in ReqIds |-> FALSE]
    /\ masterLog = <<>>
    /\ ready = <<>>
    /\ resolvedOrder = <<>>
    /\ completedOrder = <<>>

InitCodec ==
    /\ pc = "start"
    /\ input \in QuantityInputs \cup DataInputs
    /\ wire = <<>>
    /\ output = NoResult
    /\ decodeHexError \in DecodeHexErrors
    /\ ServerInit

QuantityEncode ==
    /\ pc = "start" /\ input.fn = "quantity" /\ input.kind = "encode"
    /\ wire' = quantity_encoder(input.x)
    /\ pc' = "encoded"
    /\ UNCHANGED <<input, output, decodeHexError, serverVars>>

QuantityDecode ==
    /\ input.fn = "quantity"
    /\ \/ pc = "start" /\ input.kind = "decode" /\ output' = quantity_decoder(input.raw)
       \/ pc = "encoded" /\ output' = quantity_decoder(JStr(wire))
    /\ pc' = "decoded"
    /\ UNCHANGED <<input, wire, decodeHexError, serverVars>>

DataEncode ==
    /\ pc = "start" /\ input.fn = "data" /\ input.kind = "encode"
    /\ wire' = data_encoder(input.b, input.length)
    /\ pc' = "encoded"
    /\ UNCHANGED <<input, output, decodeHexError, serverVars>>

DataDecode ==
    /\ input.fn = "data"
    /\ \/ pc = "start" /\ input.kind = "decode" /\ output' = data_decoder(input.raw)
       \/ pc = "encoded" /\ output' = data_decoder(JStr(wire))
    /\ pc' = "decoded"
    /\ UNCHANGED <<input, wire, decodeHexError, serverVars>>

CodecIdle ==
    /\ pc = "unused"
    /\ input = DecodeInput("none", JNull)
    /\ wire = <<>>
    /\ output = NoResult

(***************************************************************************)
(* The server: requests are dispatched on the one event loop, a handler    *)
(* suspends at its call of the master and is woken when the call resolves. *)
(***************************************************************************)
T(text) == JStr(text)

ValidAddress == T(<<"0", "x", "0", "a", "0", "b">>)
ShortAddress == T(<<"0", "x", "0", "a">>)
ValidBranch == T(<<"0", "x", "0", "1">>)
LongBranch == T(<<"0", "x", "0", "1", "0", "2">>)
Absent == [t |-> "absent", s |-> <<>>, n |-> 0]

Request(method, args) == [method |-> method, args |-> args]

EchoRequests ==
    {Request("echo", [data |-> d]) :
        d \in {T(<<"0", "x", "f", "f">>), T(<<"f">>), T(<<"0", "x", "g", "1">>), JInt(123)}}

GetTransactionCountRequests ==
    {Request("getTransactionCount", [address |-> a]) :
        a \in {ValidAddress, ShortAddress, JInt(5)}}
    \cup {Request("getTransactionCount", [address |-> a, blockId |-> b]) :
            a \in {ValidAddress, ShortAddress},
            b \in {T(<<"0", "x", "5">>), T(<<"0", "x", "0", "5">>), JNull}}

\* the mapping holding the fields that are not Absent
TxParams(nonce, v, r, s, branch, withdraw, withdrawTo, to, gas) ==
    LET all == [nonce |-> nonce, v |-> v, r |-> r, s |-> s, branch |-> branch,
                withdraw |-> withdraw, withdrawTo |-> withdrawTo, to |-> to, gas |-> gas]
    IN  [isDict |-> TRUE,
         f |-> [k \in {k \in DOMAIN all : all[k] # Absent} |-> all[k]]]

NotAMapping == [isDict |-> FALSE, f |-> <<>>]

One == T(<<"0", "x", "1">>)
Zero == T(<<"0", "x", "0">>)

SendTransactionRequests ==
    {Request("sendTransaction", [data |-> NotAMapping])}
    \cup {Request("sendTransaction",
                  [data |-> TxParams(nonce, v, r, s, branch, withdraw, withdrawTo, to, gas)]) :
            nonce \in {Absent, One, T(<<"1">>)},
            v \in {Absent, Zero, T(<<"0", "x", "1", "b">>)},
            r \in {Absent, One},
            s \in {Zero, One},
            branch \in {Absent, ValidBranch, LongBranch},
            withdraw \in {Absent, Zero, T(<<"0", "x", "5">>)},
            withdrawTo \in {Absent, ValidAddress},
            to \in {Absent, ValidAddress},
            gas \in {Absent, T(<<"0", "x", "5", "2", "0", "8">>)}}

SampleSendTransactionRequests ==
    {Request("sendTransaction", [data |-> NotAMapping]),
     Request("sendTransaction",
             [data |-> TxParams(Absent, One, One, One, ValidBranch, Absent, Absent,
                                ValidAddress, Absent)]),
     Request("sendTransaction",
             [data |-> TxParams(One, One, One, One, ValidBranch, Absent, Absent,
                                ValidAddress, Absent)])}

Requests == EchoRequests \cup GetTransactionCountRequests \cup SampleSendTransactionRequests

BranchObject(raw) == [cls |-> "Branch", raw |-> raw]

\* what the master may answer to a call
MasterReplies(method) ==
    IF method = "getTransactionCount"
    THEN {Ok([branch |-> BranchObject(<<1>>), count |-> 0]),
          Ok([branch |-> BranchObject(<<2>>), count |-> MaxCount]),
          Raise("MasterError", "")}
    ELSE {OkNone, Raise("SubmissionFailure", "")}

InitServer ==
    /\ CodecIdle
    /\ decodeHexError \in DecodeHexErrors
    /\ ServerInit

\* faulty variant of AwaitedReply: the last reply received, as if the reply
\* were kept in a field of the server shared by the requests
AwaitedReplyShared(replies, r) == replies[resolvedOrder[Len(resolvedOrder)]]

\* the reply a woken coroutine receives from its await: that of its own call
AwaitedReply(replies, r) == replies[r]

\* a request arrives and its method runs up to its first suspension
\* the effect of a call that ran up to s: suspended at the master, or ended
Started(r, s) ==
    /\ entered' = [entered EXCEPT ![r] = s.entered]
    /\ IF s.suspend
       THEN /\ st' = [st EXCEPT ![r] = "awaiting"]
            /\ frame' = [frame EXCEPT ![r] = s.frame]
            /\ masterLog' = Append(masterLog,
                                   [r |-> r, fn |-> s.call.fn, arg |-> s.call.arg])
            /\ UNCHANGED <<outcome, completedOrder>>
       ELSE /\ st' = [st EXCEPT ![r] = "done"]
            /\ outcome' = [outcome EXCEPT ![r] = s.res]
            /\ completedOrder' = Append(completedOrder, r)
            /\ UNCHANGED <<frame, masterLog>>

Dispatch(r, rq) ==
    /\ st[r] = "idle"
    /\ \A q \in ReqIds : q < r => st[q] # "idle"
    /\ req' = [req EXCEPT ![r] = rq]
    /\ Started(r, HandlerStart(rq))
    /\ UNCHANGED <<codecVars, decodeHexError, answer, ready, resolvedOrder>>

\* the master's call of request r resolves: its coroutine is scheduled to wake
MasterResolve(r, reply) ==
    /\ st[r] = "awaiting"
    /\ answer' = [answer EXCEPT ![r] = reply]
    /\ st' = [st EXCEPT ![r] = "ready"]
    /\ ready' = Append(ready, r)
    /\ resolvedOrder' = Append(resolvedOrder, r)
    /\ UNCHANGED <<codecVars, decodeHexError, req, frame, outcome, entered, masterLog,
                   completedOrder>>

\* the event loop wakes the first scheduled coroutine, which runs to its end
Resume ==
    /\ ready # <<>>
    /\ LET r == Head(ready)
       IN  /\ outcome' = [outcome EXCEPT
                             ![r] = HandlerResume(frame[r], AwaitedReply(answer, r))]
           /\ st' = [st EXCEPT ![r] = "done"]
           /\ completedOrder' = Append(completedOrder, r)
    /\ ready' = Tail(ready)
    /\ UNCHANGED <<codecVars, decodeHexError, req, frame, answer, entered, masterLog,
                   resolvedOrder>>

Next ==
    \/ \E r \in ReqIds, rq \in Requests : Dispatch(r, rq)
    \/ \E r \in ReqIds : \E reply \in MasterReplies(frame[r].method) :
          MasterResolve(r, reply)
    \/ Resume

Spec == InitServer /\ [][Next]_vars

\* one sendTransaction request over the whole range of parameter objects
NextSend == \E rq \in SendTransactionRequests : Dispatch(1, rq)

SpecSend == InitServer /\ [][NextSend]_vars

NextCodec == QuantityEncode \/ QuantityDecode \/ DataEncode \/ DataDecode

SpecCodec == InitCodec /\ [][NextCodec]_vars

(***************************************************************************)
(* Properties of the codecs (checked under SpecCodec).                     *)
(***************************************************************************)
IsLowerHexDigit(c) == \E i \in 1..16 : HexDigits[i] = c

CanonicalQuantity(w) ==
    /\ Len(w) >= 3
    /\ w[1] = "0" /\ w[2] = "x"
    /\ \A i \in 3..Len(w) : IsLowerHexDigit(w[i])
    /\ w[3] = "0" => w = <<"0", "x", "0">>

\* C5: for every non-negative integer x, decoding the encoding of x gives x
\* back, and the encoding is "0x" followed by hex digits that do not start
\* with "0" unless the whole string is "0x0", which is the encoding of 0.
QuantityRoundTrip ==
    (input.fn = "quantity" /\ input.kind = "encode") =>
        /\ pc \in {"encoded", "decoded"} =>
              /\ CanonicalQuantity(wire)
              /\ (wire = <<"0", "x", "0">>) <=> (input.x = 0)
        /\ pc = "decoded" => (output.ok /\ output.val = input.x)

QuantityRoundTripWitness ==
    /\ pc = "decoded" /\ input.fn = "quantity" /\ input.kind = "encode"
    /\ input.x = 256
    /\ wire = <<"0", "x", "1", "0", "0">>
    /\ output.ok /\ output.val = 256

MalformedQuantity(raw) ==
    \/ raw.t # "str"
    \/ ~startswith0x(raw.s)
    \/ (Len(raw.s) > 3 /\ raw.s[3] = "0")
    \/ Drop(raw.s, 2) = <<>>
    \/ ~AllHex(Drop(raw.s, 2))

\* C6: quantity_decoder fails with the invalid-encoding parameter error on
\* every input that is not a string, has no "0x" prefix, has a leading zero
\* digit (other than "0x0") or has anything but hex digits after the prefix
\* (an empty digit string, a sign, whitespace); every value it returns is a
\* non-negative integer.
QuantityDecoderRejectsMalformed ==
    (pc = "decoded" /\ input.fn = "quantity" /\ input.kind = "decode") =>
        /\ MalformedQuantity(input.raw) => (~output.ok /\ output.err = "InvalidParams")
        /\ output.ok => output.val >= 0

ZeroPad(b, k) == Repeat(0, k - Len(b)) \o b

Max(a, b) == IF a >= b THEN a ELSE b

\* C7: for every byte buffer b, data_decoder(data_encoder(b)) = b; with a
\* length, data_encoder(b, length) is never shorter than data_encoder(b) and
\* decodes to b left-padded with zero bytes to max(len(b), length) bytes.
DataRoundTrip ==
    (input.fn = "data" /\ input.kind = "encode") =>
        /\ pc \in {"encoded", "decoded"} =>
              Len(wire) >= 2 + 2 * Len(input.b)
        /\ pc = "decoded" =>
              /\ output.ok
              /\ output.val = IF input.length = NoLength THEN input.b
                              ELSE ZeroPad(input.b, Max(Len(input.b), input.length))

DataRoundTripWitness ==
    /\ pc = "decoded" /\ input.fn = "data" /\ input.kind = "encode"
    /\ input.b = <<255>> /\ input.length = 3
    /\ wire = <<"0", "x", "0", "0", "0", "0", "f", "f">>
    /\ output.ok /\ output.val = <<0, 0, 255>>

DigitsOf(text) == IF startswith0x(text) THEN Drop(text, 2) ELSE text

\* C8: on a hex string, with or without the "0x" prefix, data_decoder
\* returns 32 bytes (the digits left-padded with "0" to 64 digits) when the
\* digit count is odd and below 64, fails when it is odd and above 64, and
\* returns digit-count/2 bytes without padding when it is even.
DataDecoderLegacyPadding ==
    (/\ pc = "decoded" /\ input.fn = "data" /\ input.kind = "decode"
     /\ input.raw.t = "str" /\ AllHex(DigitsOf(input.raw.s))) =>
        LET digits == DigitsOf(input.raw.s)
        IN  IF Len(digits) % 2 = 1
            THEN IF Len(digits) < 64
                 THEN /\ output.ok
                      /\ Len(output.val) = 32
                      /\ encode_hex(output.val) =
                            [i \in 1..64 |-> IF i <= 64 - Len(digits) THEN "0"
                                             ELSE HexDigits[HexVal(digits[i - (64 - Len(digits))]) + 1]]
                 ELSE ~output.ok
            ELSE /\ output.ok
                 /\ Len(output.val) = Len(digits) \div 2
                 /\ encode_hex(output.val) =
                       [i \in 1..Len(digits) |-> HexDigits[HexVal(digits[i]) + 1]]

DataDecoderLegacyPaddingWitness ==
    /\ pc = "decoded" /\ input.fn = "data" /\ input.kind = "decode"
    /\ input.raw.t = "str" /\ AllHex(input.raw.s)
    /\ Len(input.raw.s) = 63 /\ input.raw.s[1] = "a"
    /\ output.ok /\ Len(output.val) = 32 /\ output.val[1] = 10

(***************************************************************************)
(* Properties of the handlers (checked under Spec and SpecSend).           *)
(***************************************************************************)
CallsOf(r, fn) == {i \in 1..Len(masterLog) : masterLog[i].r = r /\ masterLog[i].fn = fn}

AllFieldsDecode(p) == \A i \in 1..12 : DecodeFields(p)[i].ok

ValidSendParams(p) ==
    /\ p.isDict
    /\ AllFieldsDecode(p)
    /\ "nonce" \in DOMAIN p.f
    /\ \A k \in {"v", "r", "s"} : k \in DOMAIN p.f
    /\ DecodeFields(p)[6].val # 0 /\ DecodeFields(p)[7].val # 0 /\ DecodeFields(p)[8].val # 0
    /\ "branch" \in DOMAIN p.f
    /\ DecodeFields(p)[11].val > 0 => "withdrawTo" \in DOMAIN p.f

IsHash32Text(v) ==
    /\ v.t = "str" /\ Len(v.s) = 66 /\ startswith0x(v.s)
    /\ \A i \in 3..66 : IsHexDigit(v.s[i])

\* C1: on a mapping whose present fields are well-formed, with nonce, non-zero
\* v, r, s, branch, and withdrawTo whenever withdraw > 0, sendTransaction
\* raises no error: it calls the master's addTx exactly once and, when addTx
\* succeeds, returns "0x" followed by 64 hex digits.
SendTransactionSucceeds ==
    \A r \in ReqIds :
        (/\ req[r].method = "sendTransaction"
         /\ ValidSendParams(req[r].args["data"])) =>
            /\ Cardinality(CallsOf(r, "addTx")) = 1
            /\ st[r] = "done" =>
                  \/ outcome[r].ok /\ IsHash32Text(outcome[r].val)
                  \/ ~outcome[r].ok /\ outcome[r] = answer[r]

ExpectedValidationMessage(p) ==
    IF "nonce" \notin DOMAIN p.f THEN "Missing nonce"
    ELSE IF \/ \E k \in {"v", "r", "s"} : k \notin DOMAIN p.f
            \/ DecodeFields(p)[6].val = 0
            \/ DecodeFields(p)[7].val = 0
            \/ DecodeFields(p)[8].val = 0
         THEN "Missing v, r, s"
    ELSE IF "branch" \notin DOMAIN p.f THEN "Missing branch"
    ELSE IF DecodeFields(p)[11].val > 0 /\ "withdrawTo" \notin DOMAIN p.f
         THEN "Missing withdrawTo"
    ELSE ""

\* C2: sendTransaction on a mapping whose present fields all decode fails
\* with InvalidParams, without calling addTx, with the message "Missing
\* nonce", else "Missing v, r, s", else "Missing branch", else "Missing
\* withdrawTo", in that order of checks; a non-mapping fails with InvalidParams.
SendTransactionValidationErrors ==
    \A r \in ReqIds :
        (req[r].method = "sendTransaction" /\ st[r] = "done") =>
            LET p == req[r].args["data"]
            IN  IF ~p.isDict
                THEN /\ ~outcome[r].ok /\ outcome[r].err = "InvalidParams"
                     /\ CallsOf(r, "addTx") = {}
                ELSE (AllFieldsDecode(p) /\ ExpectedValidationMessage(p) # "") =>
                        /\ ~outcome[r].ok /\ outcome[r].err = "InvalidParams"
                        /\ outcome[r].msg = ExpectedValidationMessage(p)
                        /\ CallsOf(r, "addTx") = {}

Answered(r) == \E i \in 1..Len(resolvedOrder) : resolvedOrder[i] = r

\* C3: for a well-formed address and a (branch, count) answered by the
\* master, getTransactionCount returns an object whose branch is the
\* "0x"-prefixed hex of the serialized Branch (never null) and whose count
\* is the canonical Quantity encoding of the count.
GetTransactionCountResult ==
    \A r \in ReqIds :
        (/\ req[r].method = "getTransactionCount" /\ st[r] = "done"
         /\ Answered(r) /\ answer[r].ok) =>
            /\ outcome[r].ok
            /\ outcome[r].val.branch =
                  JStr(<<"0", "x">> \o encode_hex(serialize(answer[r].val.branch)))
            /\ outcome[r].val.count.t = "str"
            /\ CanonicalQuantity(outcome[r].val.count.s)
            /\ HexToInt(Drop(outcome[r].val.count.s, 2)) = answer[r].val.count

DecoderFails(rq) ==
    IF rq.method = "echo" THEN ~data_decoder(rq.args["data"]).ok
    ELSE \/ ~address_decoder(rq.args["address"]).ok
         \/ ~block_id_decoder(getcallargs(rq.args, [blockId |-> Pending])["blockId"]).ok

\* C4: in a request to a pipelined method (echo, getTransactionCount), when
\* the decoder of a declared argument fails the request ends with
\* InvalidParams, the handler body is not entered and the master is not
\* called; the body runs only when every declared argument decoded.
PipelineDecodeFailure ==
    \A r \in ReqIds :
        req[r].method \in {"echo", "getTransactionCount"} =>
            /\ DecoderFails(req[r]) =>
                  /\ st[r] = "done"
                  /\ ~outcome[r].ok /\ outcome[r].err = "InvalidParams"
                  /\ ~entered[r]
                  /\ \A i \in 1..Len(masterLog) : masterLog[i].r # r
            /\ entered[r] => ~DecoderFails(req[r])

\* the outcome of a request processed alone, given the master's answer
Continue(s, reply) == IF s.suspend THEN HandlerResume(s.frame, reply) ELSE s.res

RunAlone(rq, reply) == Continue(HandlerStart(rq), reply)

SameResult(a, b) ==
    /\ a.ok = b.ok /\ a.none = b.none /\ a.err = b.err /\ a.msg = b.msg
    /\ (a.ok /\ ~a.none) => a.val = b.val

Position(order, r) == CHOOSE i \in 1..Len(order) : order[i] = r

====
